---- MODULE Spec2Model ----
(***************************************************************************)
(* Box tree generation of css-box-tree (src/core/boxTreeGenerator.ts and   *)
(* src/core/styleResolver.ts).                                             *)
(*                                                                         *)
(* A parsed document is a flat, pre-order numbered DOM: node 0 is <body>,  *)
(* nodes 1..n are its descendants in document order.  A box is a nested    *)
(* record mirroring the BoxNode interface.  Every function that creates    *)
(* boxes threads the module-level nodeIdCounter through its result.        *)
(***************************************************************************)
EXTENDS Integers, Sequences, FiniteSets, TLC

VARIABLES
  html,            \* the parsed document of the current call
  nodeIdCounter,   \* the module-level counter of boxTreeGenerator.ts
  tree,            \* the tree the last call returned
  elementMap,      \* the map the last call returned
  dataBoxId,       \* the data-box-id attributes of the document's elements
  pc,              \* "start": no input yet; "idle": an input awaits its
                   \* call; "done": the call returned
  counterAtEntry,  \* history: nodeIdCounter when the last call was entered
  resolved         \* the value the last getComputedDisplayType call returned

vars ==
  <<html, nodeIdCounter, tree, elementMap, dataBoxId, pc, counterAtEntry,
    resolved>>

-----------------------------------------------------------------------------
(* Bounds of the explored inputs *)

\* nodes below <body> in a document over every display class
MaxNodes == 3
\* nodes below <body> in a document over the flow kinds (block, inline, text)
MaxFlowNodes == 5
\* nodes below <body> in a document over the kinds of inline-level elements
\* that establish a block formatting context
MaxBfcNodes == 4
\* nodes below <body> in a document handed over after an earlier call
MaxRepeatNodes == 2
\* nodes of a document in the termination check: three inline elements
\* nested around a block make the split cascade twice
MaxLiveNodes == 4
\* declarations in the style attribute of an element handed to the resolver
MaxDeclarations == 2

-----------------------------------------------------------------------------
(* Null values of the three nullable field types *)

NullNode == -1
NullDisplay == "null"
NullText == <<>>
NullTree ==
  [id |-> <<"null", 0>>, boxType |-> "null", displayType |-> NullDisplay,
   element |-> NullNode, textContent |-> NullText, tagName |-> "null",
   children |-> <<>>, isAnonymous |-> FALSE, isEmpty |-> FALSE,
   textNode |-> NullNode]

BODY == 0

-----------------------------------------------------------------------------
(* types.ts *)

DisplayType ==
  { "block", "inline", "inline-block", "flex", "inline-flex", "grid",
    "inline-grid", "list-item", "none", "contents", "table", "inline-table",
    "table-row", "table-cell", "table-header-group", "table-footer-group",
    "table-row-group", "table-column", "table-column-group", "table-caption",
    "ruby", "ruby-base", "ruby-text", "ruby-base-container",
    "ruby-text-container" }

\* a value that is not a DisplayType, returned where the code finds a property
\* that the lookup table inherits from Object.prototype
ObjectPrototype(key) ==
  CASE key = "constructor" -> "function Object"
    [] key = "__proto__" -> "Object.prototype"
    [] OTHER -> NullDisplay

\* DEFAULT_DISPLAY_TYPES[tagName]: the entries of the default-display table
\* for the tags the inputs use, then what a plain object inherits; a tag
\* with neither has the value NullDisplay (undefined)
DEFAULT_DISPLAY_TYPES(tagName) ==
  CASE tagName = "div" -> "block"
    [] tagName = "p" -> "block"
    [] tagName = "li" -> "list-item"
    [] tagName = "td" -> "table-cell"
    [] tagName = "span" -> "inline"
    [] tagName = "em" -> "inline"
    [] OTHER -> ObjectPrototype(tagName)

-----------------------------------------------------------------------------
(* styleResolver.ts *)

\* The style attribute is the sequence of its declarations, as written:
\* [property |-> name, value |-> text up to the semicolon].  NoStyle is the
\* attribute that is missing or empty.
NoStyle == <<>>

Decl(property, value) == [property |-> property, value |-> value]

\* style="display: v"
InlineDisplay(value) == << Decl("display", value) >>

\* the property names /display\s*:/i finds a match in: the names that end in
\* "display", in any case
MatchesDisplay(property) == property \in { "display", "DISPLAY", "--display" }

\* String.prototype.trim then toLowerCase, on the values the inputs use
trimToLowerCase(value) ==
  CASE value = "FLEX" -> "flex"
    [] value = " none " -> "none"
    [] value = "Inline-Block" -> "inline-block"
    [] OTHER -> value

\* displayMap[displayValue]: the own entries, then what the object inherits
displayMap(displayValue) ==
  IF displayValue \in DisplayType THEN displayValue
  ELSE ObjectPrototype(displayValue)

\* styleAttr.match(/display\s*:\s*([^;]+)/i): the index of the first
\* declaration the pattern matches, 0 when there is none
displayMatch(styleAttr) ==
  IF \E i \in 1..Len(styleAttr) : MatchesDisplay(styleAttr[i].property)
  THEN CHOOSE i \in 1..Len(styleAttr) :
         /\ MatchesDisplay(styleAttr[i].property)
         /\ \A j \in 1..(i - 1) : ~MatchesDisplay(styleAttr[j].property)
  ELSE 0

getDisplayFromStyle(styleAttr) ==
  IF styleAttr = NoStyle THEN NullDisplay
  ELSE IF displayMatch(styleAttr) = 0 THEN NullDisplay
  ELSE displayMap(trimToLowerCase(styleAttr[displayMatch(styleAttr)].value))

getComputedDisplayType(element) ==
  LET styleDisplay == getDisplayFromStyle(element.style)
  IN IF styleDisplay # NullDisplay THEN styleDisplay
     ELSE IF DEFAULT_DISPLAY_TYPES(element.tagName) # NullDisplay
          THEN DEFAULT_DISPLAY_TYPES(element.tagName)
          ELSE "block"

\* mutant: display none is boxed like any other keyword
generatesBox_Always(displayType) == TRUE

generatesBox(displayType) == displayType # "none"

isContents(displayType) == displayType = "contents"

isBlockLevel(displayType) ==
  displayType \in
    { "block", "flex", "grid", "list-item", "table", "table-caption",
      "table-header-group", "table-footer-group", "table-row-group",
      "table-column-group", "table-column", "table-row", "table-cell" }

isInlineLevel(displayType) ==
  displayType \in
    { "inline", "inline-block", "inline-flex", "inline-grid", "inline-table",
      "ruby", "ruby-base", "ruby-text", "ruby-base-container",
      "ruby-text-container" }

\* mutant: the inline-level keywords are missing from the list
establishesBlockFormattingContext_BlockOnly(displayType) ==
  displayType \in
    { "flow-root", "flex", "grid", "table", "table-cell", "table-caption" }

establishesBlockFormattingContext(displayType) ==
  displayType \in
    { "flow-root", "inline-block", "flex", "inline-flex", "grid",
      "inline-grid", "table", "inline-table", "table-cell", "table-caption" }

blockifiesChildren(displayType) ==
  displayType \in { "flex", "inline-flex", "grid", "inline-grid" }

isBlockContainer(displayType) ==
  displayType \in
    { "block", "flow-root", "inline-block", "table-cell", "list-item" }

-----------------------------------------------------------------------------
(* The DOM the parser hands over.  d.node[i] is an element                  *)
(* [nodeType, tagName, style] or a text node [nodeType, data]; d.parent[i]  *)
(* is the index of its parent (BODY for a child of <body>).                 *)

\* "const v = e; ...": The({ body : v \in {e} }) is body with v naming the
\* value of e, which is computed once however often body reads v
The(S) == CHOOSE v \in S : TRUE

ELEMENT_NODE == "element"
TEXT_NODE == "text"

Whitespace == { " ", "\n" }

NodeIds(d) == 1..Len(d.node)

\* parent.childNodes, in document order
childNodes(d, parent) ==
  SelectSeq([i \in NodeIds(d) |-> i], LAMBDA i : d.parent[i] = parent)

\* parent.children: the element children only
elementChildren(d, parent) ==
  SelectSeq(childNodes(d, parent), LAMBDA i : d.node[i].nodeType = ELEMENT_NODE)

RECURSIVE FlattenText(_, _, _)
\* Node.textContent: the concatenated data of the text descendants
textContentOf(d, n) ==
  IF n # BODY /\ d.node[n].nodeType = TEXT_NODE
  THEN d.node[n].data
  ELSE The({ FlattenText(d, nodes, 1) : nodes \in { childNodes(d, n) } })

FlattenText(d, nodes, i) ==
  IF i > Len(nodes) THEN <<>>
  ELSE textContentOf(d, nodes[i]) \o FlattenText(d, nodes, i + 1)

RECURSIVE trimStart(_)
trimStart(s) ==
  IF s # <<>> /\ Head(s) \in Whitespace
  THEN The({ trimStart(rest) : rest \in { Tail(s) } })
  ELSE s

RECURSIVE trimEnd(_)
trimEnd(s) ==
  IF s # <<>> /\ s[Len(s)] \in Whitespace
  THEN The({ trimEnd(rest) : rest \in { SubSeq(s, 1, Len(s) - 1) } })
  ELSE s

\* String.prototype.trim
trim(s) == The({ trimEnd(trimStart(str)) : str \in {s} })

-----------------------------------------------------------------------------
(* boxTreeGenerator.ts: identities and the box factory *)

\* mutant: the counter is read but not advanced
generateId_NoIncrement(ctr) == [id |-> <<"box", ctr + 1>>, ctr |-> ctr]

\* `box-${++nodeIdCounter}`: the new counter and the identity made from it
generateId(ctr) == [id |-> <<"box", ctr + 1>>, ctr |-> ctr + 1]

\* mutant: the anonymous block is not flagged anonymous
createAnonymousBlockBox_NotFlagged(ctr) ==
  LET g == generateId(ctr)
  IN [box |-> [id |-> g.id, boxType |-> "anonymous-block",
               displayType |-> NullDisplay, element |-> NullNode,
               textContent |-> NullText, tagName |-> "null",
               children |-> <<>>, isAnonymous |-> FALSE, isEmpty |-> FALSE,
               textNode |-> NullNode],
      ctr |-> g.ctr]

createAnonymousBlockBox(ctr) ==
  LET g == generateId(ctr)
  IN [box |-> [id |-> g.id, boxType |-> "anonymous-block",
               displayType |-> NullDisplay, element |-> NullNode,
               textContent |-> NullText, tagName |-> "null",
               children |-> <<>>, isAnonymous |-> TRUE, isEmpty |-> FALSE,
               textNode |-> NullNode],
      ctr |-> g.ctr]

\* mutant: the text-backed box does not keep its text node
createTextBox_NoTextNode(boxType, textContent, textNode, ctr) ==
  LET g == generateId(ctr)
  IN [box |-> [id |-> g.id, boxType |-> boxType,
               displayType |-> NullDisplay, element |-> NullNode,
               textContent |-> textContent, tagName |-> "null",
               children |-> <<>>, isAnonymous |-> TRUE,
               isEmpty |-> (Len(trim(textContent)) = 0),
               textNode |-> NullNode],
      ctr |-> g.ctr]

\* the three text-backed factories differ in the box type only
createTextBox(boxType, textContent, textNode, ctr) ==
  LET g == generateId(ctr)
  IN [box |-> [id |-> g.id, boxType |-> boxType,
               displayType |-> NullDisplay, element |-> NullNode,
               textContent |-> textContent, tagName |-> "null",
               children |-> <<>>, isAnonymous |-> TRUE,
               isEmpty |-> (Len(trim(textContent)) = 0),
               textNode |-> textNode],
      ctr |-> g.ctr]

createAnonymousInlineBox(textContent, textNode, ctr) ==
  createTextBox("anonymous-inline", textContent, textNode, ctr)

createAnonymousFlexItem(textContent, textNode, ctr) ==
  createTextBox("anonymous-flex-item", textContent, textNode, ctr)

\* mutant: text in a grid container is boxed as a flex item
createAnonymousGridItem_AsFlexItem(textContent, textNode, ctr) ==
  createTextBox("anonymous-flex-item", textContent, textNode, ctr)

createAnonymousGridItem(textContent, textNode, ctr) ==
  createTextBox("anonymous-grid-item", textContent, textNode, ctr)

\* mutant: the list-item test is missing, list-item takes the default branch
getBoxTypeFromDisplay_NoListItem(displayType, isListItem) ==
  CASE displayType = "inline" -> "inline"
    [] displayType = "inline-block" -> "inline-block"
    [] displayType \in { "flex", "inline-flex" } -> "flex-container"
    [] displayType \in { "grid", "inline-grid" } -> "grid-container"
    [] OTHER -> "block"

getBoxTypeFromDisplay(displayType, isListItem) ==
  IF isListItem THEN "list-item"
  ELSE CASE displayType = "block" -> "block"
         [] displayType = "inline" -> "inline"
         [] displayType = "inline-block" -> "inline-block"
         [] displayType = "flex" -> "flex-container"
         [] displayType = "inline-flex" -> "flex-container"
         [] displayType = "grid" -> "grid-container"
         [] displayType = "inline-grid" -> "grid-container"
         [] OTHER -> "block"

\* mutant: the parent's blockification is not applied
elementBoxType_NoBlockify(displayType, parentBlockifies, parentDisplayType) ==
  getBoxTypeFromDisplay(displayType, displayType = "list-item")

\* the box type createBoxFromElement settles on (lines 148-165)
elementBoxType(displayType, parentBlockifies, parentDisplayType) ==
  LET isListItem == displayType = "list-item"
      boxType == getBoxTypeFromDisplay(displayType, isListItem)
  IN IF parentBlockifies /\ parentDisplayType # NullDisplay
     THEN LET parentIsGrid == parentDisplayType \in { "grid", "inline-grid" }
          IN IF parentIsGrid THEN "grid-item" ELSE "flex-item"
     ELSE boxType

\* the isEmpty field of an element-backed box (lines 178-180)
elementIsEmpty(d, element) ==
  /\ Len(elementChildren(d, element)) = 0
  /\ Len(trim(textContentOf(d, element))) = 0

createBoxFromElement(d, element, displayType, parentBlockifies, parentDisplayType, ctr) ==
  LET g == generateId(ctr)
  IN [box |-> [id |-> g.id,
               boxType |-> elementBoxType(displayType, parentBlockifies,
                                          parentDisplayType),
               displayType |-> displayType, element |-> element,
               textContent |-> NullText,
               tagName |-> d.node[element].tagName,
               children |-> <<>>, isAnonymous |-> FALSE,
               isEmpty |-> elementIsEmpty(d, element),
               textNode |-> NullNode],
      ctr |-> g.ctr]

isWhitespaceOnly(text) == Len(trim(text)) = 0

-----------------------------------------------------------------------------
(* boxTreeGenerator.ts: the generator.  Each function returns the boxes it  *)
(* made and the counter it left: [boxes |-> <<...>>, ctr |-> n].            *)

RECURSIVE hasBlockLevelChildren(_, _)
RECURSIVE hasBlockLevelFrom(_, _, _)
RECURSIVE processChildren(_, _, _, _, _)
RECURSIVE processChildNodes(_, _, _, _, _, _)
RECURSIVE processInlineWithBlockChildren(_, _, _, _, _)
RECURSIVE splitChildNodes(_, _, _, _, _, _)

\* the loop of hasBlockLevelChildren from childNodes[i] on
hasBlockLevelFrom(d, nodes, i) ==
  IF i > Len(nodes) THEN FALSE
  ELSE IF d.node[nodes[i]].nodeType # ELEMENT_NODE
       THEN hasBlockLevelFrom(d, nodes, i + 1)
  ELSE LET child == nodes[i]
           displayType == getComputedDisplayType(d.node[child])
       IN IF ~generatesBox(displayType) \/ isContents(displayType)
          THEN hasBlockLevelFrom(d, nodes, i + 1)
          ELSE IF isBlockLevel(displayType) THEN TRUE
          ELSE IF establishesBlockFormattingContext(displayType)
               THEN hasBlockLevelFrom(d, nodes, i + 1)
          ELSE IF isInlineLevel(displayType) /\ hasBlockLevelChildren(d, child)
               THEN TRUE
          ELSE hasBlockLevelFrom(d, nodes, i + 1)

hasBlockLevelChildren(d, element) ==
  The({ hasBlockLevelFrom(d, nodes, 1) : nodes \in { childNodes(d, element) } })

\* the box types the post-pass of processChildren looks for (lines 536-544)
isBlockBoxType(boxType) ==
  boxType \in { "block", "flex-container", "grid-container", "list-item",
                "anonymous-block" }

\* the box types wrapInlineInAnonymousBlocks gathers (lines 564-567)
isInlineBoxType(boxType) ==
  boxType \in { "inline", "inline-block", "anonymous-inline" }

RECURSIVE wrapFrom(_, _, _, _, _)
\* the loop of wrapInlineInAnonymousBlocks from children[i] on; current is
\* <<>> while currentAnonymousBlock is null and <<the open box>> otherwise
wrapFrom(children, i, result, current, ctr) ==
  IF i > Len(children)
  THEN [boxes |-> result \o current, ctr |-> ctr]
  ELSE LET child == children[i]
       IN IF isInlineBoxType(child.boxType)
          THEN The({ wrapFrom(children, i + 1, result,
                              <<[a.box EXCEPT !.children = Append(@, child)]>>,
                              a.ctr)
                     : a \in { IF current = <<>>
                               THEN createAnonymousBlockBox(ctr)
                               ELSE [box |-> current[1], ctr |-> ctr] } })
          ELSE The({ wrapFrom(children, i + 1, closed, <<>>, ctr)
                     : closed \in { (result \o current) \o <<child>> } })

\* mutant: the inline runs are left unwrapped
wrapInlineInAnonymousBlocks_NoWrap(children, ctr) ==
  [boxes |-> children, ctr |-> ctr]

wrapInlineInAnonymousBlocks(children, ctr) ==
  wrapFrom(children, 1, <<>>, <<>>, ctr)

\* the post-pass of processChildren over the children r gathered
\* (lines 530-552)
wrapIfNeeded(r, parentDisplayType, parentBlockifies) ==
  LET isParentBlockContainer ==
        IF parentDisplayType # NullDisplay
        THEN isBlockContainer(parentDisplayType) ELSE FALSE
  IN The({ IF /\ isParentBlockContainer
              /\ ~parentBlockifies
              /\ \E k \in 1..Len(c.boxes) :
                   isBlockBoxType(c.boxes[k].boxType)
           THEN wrapInlineInAnonymousBlocks(c.boxes, c.ctr)
           ELSE c
           : c \in {r} })

\* mutant: whitespace-only text is boxed like any other text
textChildBox_KeepsWhitespace(text, textNode, parentDisplayType, parentBlockifies, parentIsBlockLevel, ctr) ==
  The({ [boxes |-> <<b.box>>, ctr |-> b.ctr]
        : b \in { createAnonymousInlineBox(text, textNode, ctr) } })

\* the box of a text child of processChildren, as a sequence of 0 or 1 boxes
\* (lines 434-459)
textChildBox(text, textNode, parentDisplayType, parentBlockifies, parentIsBlockLevel, ctr) ==
  IF isWhitespaceOnly(text) /\ parentIsBlockLevel
  THEN [boxes |-> <<>>, ctr |-> ctr]
  ELSE IF Len(trim(text)) > 0
  THEN LET b == IF parentBlockifies /\ parentDisplayType # NullDisplay
                THEN IF parentDisplayType \in { "grid", "inline-grid" }
                     THEN createAnonymousGridItem(text, textNode, ctr)
                     ELSE createAnonymousFlexItem(text, textNode, ctr)
                ELSE createAnonymousInlineBox(text, textNode, ctr)
       IN [boxes |-> <<b.box>>, ctr |-> b.ctr]
  ELSE [boxes |-> <<>>, ctr |-> ctr]

\* the condition under which processChildren splits an element (lines 482-497)
mustSplit(d, element, displayType, parentEstablishesBFC) ==
  /\ isInlineLevel(displayType)
  /\ ~parentEstablishesBFC
  /\ hasBlockLevelChildren(d, element)
  /\ ~establishesBlockFormattingContext(displayType)

\* "box.children = processChildren(...)": the box with the children sub made
\* for it, and the counter after them
withChildren(box, sub) ==
  The({ [boxes |-> <<[box EXCEPT !.children = c.boxes]>>, ctr |-> c.ctr]
        : c \in {sub} })

\* the box b of an element over its processed children (lines 511-518,
\* 309-320, 371-383 and 710-712)
boxOverChildren(d, element, displayType, b) ==
  The({ withChildren(n.box, processChildren(d, element, displayType,
                                            n.box.boxType, n.ctr))
        : n \in {b} })

\* the boxes one element child of processChildren contributes (lines 460-519)
elementChildBoxes(d, element, parentDisplayType, parentBoxType, ctr) ==
  LET displayType == getComputedDisplayType(d.node[element])
      parentBlockifies ==
        IF parentDisplayType # NullDisplay
        THEN blockifiesChildren(parentDisplayType) ELSE FALSE
      parentEstablishesBFC ==
        IF parentDisplayType # NullDisplay
        THEN establishesBlockFormattingContext(parentDisplayType) ELSE FALSE
  IN IF ~generatesBox(displayType)
     THEN [boxes |-> <<>>, ctr |-> ctr]
     ELSE IF isContents(displayType)
     THEN processChildren(d, element, parentDisplayType, parentBoxType, ctr)
     ELSE IF mustSplit(d, element, displayType, parentEstablishesBFC)
     THEN processInlineWithBlockChildren(d, element, displayType,
                                         parentBlockifies, ctr)
     ELSE boxOverChildren(d, element, displayType,
                          createBoxFromElement(d, element, displayType,
                                               parentBlockifies,
                                               parentDisplayType, ctr))

\* the boxes one child node of processChildren contributes (lines 430-522)
childBoxes(d, node, parentDisplayType, parentBoxType, ctr) ==
  LET parentBlockifies ==
        IF parentDisplayType # NullDisplay
        THEN blockifiesChildren(parentDisplayType) ELSE FALSE
      parentIsBlockLevel ==
        IF parentDisplayType # NullDisplay
        THEN isBlockLevel(parentDisplayType) ELSE TRUE
  IN IF d.node[node].nodeType = TEXT_NODE
     THEN textChildBox(d.node[node].data, node, parentDisplayType,
                       parentBlockifies, parentIsBlockLevel, ctr)
     ELSE elementChildBoxes(d, node, parentDisplayType, parentBoxType, ctr)

\* mutant: the boxes r made go before the children gathered so far
pushBoxes_Unshift(children, r) ==
  [boxes |-> r.boxes \o children, ctr |-> r.ctr]

\* children.push(...): the boxes r made, after the children gathered so far
pushBoxes(children, r) ==
  The({ [boxes |-> children \o c.boxes, ctr |-> c.ctr] : c \in {r} })

\* the while loop of processChildren from childNodes[i] on (lines 429-523);
\* acc holds the children gathered so far and the counter
processChildNodes(d, nodes, i, acc, parentDisplayType, parentBoxType) ==
  IF i > Len(nodes) THEN acc
  ELSE The({ processChildNodes(d, nodes, i + 1, next, parentDisplayType,
                               parentBoxType)
             : next \in { pushBoxes(acc.boxes,
                                    childBoxes(d, nodes[i], parentDisplayType,
                                               parentBoxType, acc.ctr)) } })

processChildren(d, parent, parentDisplayType, parentBoxType, ctr) ==
  LET parentBlockifies ==
        IF parentDisplayType # NullDisplay
        THEN blockifiesChildren(parentDisplayType) ELSE FALSE
  IN The({ wrapIfNeeded(processChildNodes(d, nodes, 1,
                                          [boxes |-> <<>>, ctr |-> ctr],
                                          parentDisplayType, parentBoxType),
                        parentDisplayType, parentBlockifies)
           : nodes \in { childNodes(d, parent) } })

\* The split in progress is st = [result, current, ctr]: the result list, the
\* currentInlineContent list and the counter.

\* mutant: the open run is dropped instead of being wrapped
closeRun_Dropped(st) ==
  [result |-> st.result, current |-> <<>>, ctr |-> st.ctr]

\* "wrap the inline content gathered so far in an anonymous block box":
\* lines 302-307, 359-364 and 389-393
closeRun(st) ==
  The({ IF Len(s.current) > 0
        THEN The({ [result |-> Append(s.result,
                                      [a.box EXCEPT !.children = s.current]),
                    current |-> <<>>, ctr |-> a.ctr]
                   : a \in { createAnonymousBlockBox(s.ctr) } })
        ELSE s
        : s \in {st} })

\* mutant: the boxes r made are pushed twice
pushInline_Twice(st, r) ==
  [result |-> st.result, current |-> st.current \o r.boxes \o r.boxes,
   ctr |-> r.ctr]

\* currentInlineContent.push(...) of the boxes r made
pushInline(st, r) ==
  The({ [result |-> st.result, current |-> st.current \o c.boxes,
         ctr |-> c.ctr]
        : c \in {r} })

\* result.push(...) of the boxes r made, after the open run was closed
pushBlock(st, r) ==
  The({ [result |-> st.result \o c.boxes, current |-> <<>>, ctr |-> c.ctr]
        : c \in {r} })

RECURSIVE mergeNested(_, _, _)
\* the merge of a nested split into the outer one from nestedSplitBoxes[j] on
\* (lines 350-368)
mergeNested(nestedSplitBoxes, j, st) ==
  IF j > Len(nestedSplitBoxes) THEN st
  ELSE LET nestedBox == nestedSplitBoxes[j]
       IN The({ mergeNested(nestedSplitBoxes, j + 1, next)
                : next \in { IF nestedBox.boxType = "anonymous-block"
                             THEN [st EXCEPT
                                     !.current = @ \o nestedBox.children]
                             ELSE [closeRun(st) EXCEPT
                                     !.result = Append(@, nestedBox)] } })

\* mutant: the nested split's boxes are kept as separate siblings
mergeNestedSplit_Separate(st, nested) ==
  [result |-> closeRun(st).result \o nested.boxes, current |-> <<>>,
   ctr |-> nested.ctr]

\* the nested split's boxes merged into the split in progress, which goes on
\* from the counter the nested split left
mergeNestedSplit(st, nested) ==
  The({ mergeNested(n.boxes, 1, [st EXCEPT !.ctr = n.ctr])
        : n \in {nested} })

\* the block-level child of a split inline (lines 296-321); c is the split
\* after the open run was closed
blockChild(d, element, displayType, parentBlockifies, c) ==
  The({ pushBlock(s, boxOverChildren(d, element, displayType,
                                     createBoxFromElement(d, element,
                                                          displayType,
                                                          parentBlockifies,
                                                          NullDisplay,
                                                          s.ctr)))
        : s \in {c} })

\* what one element child does to the split in progress (lines 277-385)
splitElementChild(d, element, st, inlineDisplayType, parentBlockifies) ==
  LET displayType == getComputedDisplayType(d.node[element])
  IN IF ~generatesBox(displayType)
     THEN st
     ELSE IF isContents(displayType)
     THEN pushInline(st, processChildren(d, element, inlineDisplayType,
                                         "null", st.ctr))
     ELSE IF isBlockLevel(displayType)
     THEN blockChild(d, element, displayType, parentBlockifies, closeRun(st))
     ELSE IF /\ ~establishesBlockFormattingContext(displayType)
             /\ hasBlockLevelChildren(d, element)
     THEN mergeNestedSplit(st, processInlineWithBlockChildren(
                                 d, element, displayType, parentBlockifies,
                                 st.ctr))
     ELSE pushInline(st, boxOverChildren(
                           d, element, displayType,
                           createBoxFromElement(d, element, displayType,
                                                parentBlockifies, NullDisplay,
                                                st.ctr)))

\* what one child node does to the split in progress (lines 268-385)
splitChild(d, node, st, inlineDisplayType, parentBlockifies) ==
  IF d.node[node].nodeType = TEXT_NODE
  THEN IF ~isWhitespaceOnly(d.node[node].data)
       THEN LET t == createAnonymousInlineBox(d.node[node].data, node, st.ctr)
            IN [result |-> st.result, current |-> Append(st.current, t.box),
                ctr |-> t.ctr]
       ELSE st
  ELSE splitElementChild(d, node, st, inlineDisplayType, parentBlockifies)

\* the for loop of processInlineWithBlockChildren from childNodes[i] on
\* (lines 267-386)
splitChildNodes(d, nodes, i, st, inlineDisplayType, parentBlockifies) ==
  IF i > Len(nodes) THEN st
  ELSE The({ splitChildNodes(d, nodes, i + 1, next, inlineDisplayType,
                             parentBlockifies)
             : next \in { splitChild(d, nodes[i], st, inlineDisplayType,
                                     parentBlockifies) } })

\* "return result" (line 395)
splitResult(st) ==
  The({ [boxes |-> s.result, ctr |-> s.ctr] : s \in {st} })

processInlineWithBlockChildren(d, inlineElement, inlineDisplayType, parentBlockifies, ctr) ==
  The({ splitResult(closeRun(splitChildNodes(
                      d, nodes, 1,
                      [result |-> <<>>, current |-> <<>>, ctr |-> ctr],
                      inlineDisplayType, parentBlockifies)))
        : nodes \in { childNodes(d, inlineElement) } })

-----------------------------------------------------------------------------
(* boxTreeGenerator.ts: the source-to-box map and generateBoxTree *)

EmptyMap == [elementToBoxId |-> <<>>, boxIdToElements |-> <<>>]

\* Map.prototype.set
MapSet(m, key, value) ==
  [k \in DOMAIN m \cup {key} |-> IF k = key THEN value ELSE m[k]]

\* mutant: the forward entry is overwritten by every later box of the source
\* and the reverse list is keyed by the source instead of the identity
recordSource_Unkeyed(emap, source, id) ==
  [elementToBoxId |-> MapSet(emap.elementToBoxId, source, id),
   boxIdToElements |-> MapSet(emap.boxIdToElements, <<"box", source>>,
                              <<source>>)]

\* the entries buildElementMap makes for one source node of a box
recordSource(emap, source, id) ==
  LET fwd == IF source \in DOMAIN emap.elementToBoxId
             THEN emap.elementToBoxId
             ELSE MapSet(emap.elementToBoxId, source, id)
      rev == IF id \in DOMAIN emap.boxIdToElements
             THEN emap.boxIdToElements
             ELSE MapSet(emap.boxIdToElements, id, <<>>)
  IN [elementToBoxId |-> fwd,
      boxIdToElements |-> MapSet(rev, id, Append(rev[id], source))]

RECURSIVE buildElementMap(_, _, _)
RECURSIVE buildElementMapFrom(_, _, _, _)
\* returns the map and the data-box-id attributes set on the elements
buildElementMap(node, emap, attrs) ==
  LET m1 == IF node.element # NullNode
            THEN recordSource(emap, node.element, node.id)
            ELSE emap
      a1 == IF node.element # NullNode
            THEN MapSet(attrs, node.element, node.id)
            ELSE attrs
      m2 == IF node.textNode # NullNode
            THEN recordSource(m1, node.textNode, node.id)
            ELSE m1
  IN The({ buildElementMapFrom(node.children, 1, m, a)
           : m \in {m2}, a \in {a1} })

buildElementMapFrom(children, i, emap, attrs) ==
  IF i > Len(children) THEN [elementMap |-> emap, attrs |-> attrs]
  ELSE The({ buildElementMapFrom(children, i + 1, r.elementMap, r.attrs)
             : r \in { buildElementMap(children[i], emap, attrs) } })

\* the synthetic body wrapper (lines 694-706 and 716-728)
bodyRootBox(ctr) ==
  LET g == generateId(ctr)
  IN [box |-> [id |-> g.id, boxType |-> "block", displayType |-> "block",
               element |-> BODY, textContent |-> NullText,
               tagName |-> "body", children |-> <<>>,
               isAnonymous |-> FALSE, isEmpty |-> FALSE,
               textNode |-> NullNode],
      ctr |-> g.ctr]

\* the root a one-box result stands for, and the counter after it
asRoot(r) == The({ [tree |-> c.boxes[1], ctr |-> c.ctr] : c \in {r} })

\* root = the body wrapper over processChildren(body, 'block', 'block')
bodyRoot(d, ctr) ==
  asRoot(boxOverChildren(d, BODY, "block", bodyRootBox(ctr)))

hasNonWhitespaceText(d) ==
  \E n \in NodeIds(d) :
    /\ d.parent[n] = BODY
    /\ d.node[n].nodeType = TEXT_NODE
    /\ Len(d.node[n].data) > 0
    /\ Len(trim(d.node[n].data)) > 0

\* mutant: the single child is never taken to need splitting
needsSplitting_Never(d, singleChild, displayType) == FALSE

\* lines 685-689
needsSplitting(d, singleChild, displayType) ==
  /\ isInlineLevel(displayType)
  /\ ~establishesBlockFormattingContext(displayType)
  /\ hasBlockLevelChildren(d, singleChild)

\* the root box and the counter after building it (lines 658-732)
selectRoot(d, ctr) ==
  LET bodyElementChildren == elementChildren(d, BODY)
  IN IF Len(bodyElementChildren) = 1 /\ ~hasNonWhitespaceText(d)
     THEN LET singleChild == bodyElementChildren[1]
              displayType == getComputedDisplayType(d.node[singleChild])
          IN IF ~generatesBox(displayType)
             THEN [tree |-> NullTree, ctr |-> ctr]
             ELSE IF needsSplitting(d, singleChild, displayType)
             THEN bodyRoot(d, ctr)
             ELSE asRoot(boxOverChildren(
                           d, singleChild, displayType,
                           createBoxFromElement(d, singleChild, displayType,
                                                FALSE, NullDisplay, ctr)))
     ELSE bodyRoot(d, ctr)

\* mutant: the call goes on counting where the last one stopped
resetCounter_Kept(ctr) == ctr

\* the counter generateBoxTree starts from (line 644)
resetCounter(ctr) == 0

\* the result of generateBoxTree for the root r: buildElementMap over the
\* tree when there is one (lines 734-743)
withElementMap(r) ==
  The({ The({ [tree |-> root.tree, elementMap |-> m.elementMap,
               attrs |-> m.attrs, ctr |-> root.ctr]
              : m \in { IF root.tree # NullTree
                        THEN buildElementMap(root.tree, EmptyMap, <<>>)
                        ELSE [elementMap |-> EmptyMap, attrs |-> <<>>] } })
        : root \in {r} })

\* generateBoxTree on the parsed document d, entered with the module-level
\* counter at ctr
generateBoxTree(d, ctr) == withElementMap(selectRoot(d, resetCounter(ctr)))

-----------------------------------------------------------------------------
(* The inputs: the documents the parser can hand over *)

Elem(tag, style) ==
  [nodeType |-> ELEMENT_NODE, tagName |-> tag, style |-> style, data |-> <<>>]

Txt(data) ==
  [nodeType |-> TEXT_NODE, tagName |-> "#text", style |-> NoStyle,
   data |-> data]

TextNode == Txt(<<" ", "a">>)
SpaceNode == Txt(<<"\n", " ">>)

\* one element for each way the generator treats a display keyword
AllKinds ==
  { Elem("div", NoStyle), Elem("span", NoStyle), Elem("li", NoStyle),
    Elem("div", InlineDisplay("inline-block")), Elem("div", InlineDisplay("flex")),
    Elem("span", InlineDisplay("inline-flex")), Elem("span", InlineDisplay("grid")),
    Elem("div", InlineDisplay("inline-grid")), Elem("div", InlineDisplay("none")),
    Elem("div", InlineDisplay("contents")), Elem("div", InlineDisplay("table")),
    Elem("div", InlineDisplay("table-cell")), Elem("div", InlineDisplay("table-row")),
    Elem("div", InlineDisplay("inline-table")), Elem("span", InlineDisplay("ruby")),
    TextNode, SpaceNode }

\* the kinds of block-in-inline splitting and of contents promotion
FlowKinds ==
  { Elem("div", NoStyle), Elem("span", NoStyle), Elem("div", InlineDisplay("contents")),
    TextNode }

\* block and inline elements with the inline-level elements that establish a
\* block formatting context
BfcKinds ==
  { Elem("div", NoStyle), Elem("span", NoStyle),
    Elem("span", InlineDisplay("inline-block")),
    Elem("span", InlineDisplay("inline-flex")), TextNode }

RECURSIVE AncestorsOrSelf(_, _)
\* n and its ancestors, under the parent links p
AncestorsOrSelf(p, n) ==
  IF n = BODY THEN {BODY} ELSE {n} \cup AncestorsOrSelf(p, p[n])

\* the parser numbers the nodes in document order: a node is a child of the
\* node before it or of one of that node's ancestors
Shapes(n) ==
  { p \in [1..n -> 0..(n - 1)] :
      \A i \in 1..n : p[i] < i /\ p[i] \in AncestorsOrSelf(p, i - 1) }

\* only elements have children
ParentIsElement(d, n) ==
  d.parent[n] = BODY \/ d.node[d.parent[n]].nodeType = ELEMENT_NODE

\* the parser merges adjacent text: a text node never follows a text sibling
NoTextBefore(d, n) ==
  d.node[n].nodeType = TEXT_NODE =>
    \A m \in 1..(n - 1) :
      (d.parent[m] = d.parent[n] /\ d.node[m].nodeType = TEXT_NODE) =>
        \E e \in (m + 1)..(n - 1) : d.parent[e] = d.parent[n]

WellFormed(d) ==
  \A n \in NodeIds(d) : ParentIsElement(d, n) /\ NoTextBefore(d, n)

\* the documents of at most max nodes over the given kinds
Documents(kinds, max) ==
  { d \in UNION { [parent : Shapes(n), node : [1..n -> kinds]] : n \in 0..max } :
      WellFormed(d) }

\* "<span> Text 1 <div>Block 1</div> Text 2 <div>Block 2</div> Text 3 </span>"
MultipleBlocks ==
  [parent |-> <<0, 1, 1, 3, 1, 1, 6, 1>>,
   node |-> << Elem("span", NoStyle), TextNode, Elem("div", NoStyle),
               TextNode, TextNode, Elem("div", NoStyle), TextNode,
               TextNode >>]

\* "<span> First <span> Before <div>Block inside span!</div> After </span>
\* </span>"
NestedInline ==
  [parent |-> <<0, 1, 1, 3, 3, 5, 3, 1>>,
   node |-> << Elem("span", NoStyle), TextNode, Elem("span", NoStyle),
               TextNode, Elem("div", NoStyle), TextNode, TextNode,
               SpaceNode >>]

\* "<div>\n  <p>First</p>\n  <p>Second</p>\n</div>"
WhitespaceBetweenBlocks ==
  [parent |-> <<0, 1, 1, 3, 1, 1, 6, 1>>,
   node |-> << Elem("div", NoStyle), SpaceNode, Elem("p", NoStyle), TextNode,
               SpaceNode, Elem("p", NoStyle), TextNode, SpaceNode >>]

\* the documents of the test suite that are larger than the bounds above
TestInputs == { MultipleBlocks, NestedInline, WhitespaceBetweenBlocks }

Inputs ==
  Documents(AllKinds, MaxNodes) \cup Documents(FlowKinds, MaxFlowNodes)
    \cup Documents(BfcKinds, MaxBfcNodes) \cup TestInputs

-----------------------------------------------------------------------------
(* The state machine: a document is handed to generateBoxTree *)

\* the documents handed over in a session of several calls
RepeatInputs == Documents(FlowKinds, MaxRepeatNodes)

\* the document before any input was handed over
NoDocument == [parent |-> <<>>, node |-> <<>>]

\* the module was loaded: the counter is 0 (line 14) and no call was made
Init ==
  /\ html = NoDocument
  /\ nodeIdCounter = 0
  /\ tree = NullTree
  /\ elementMap = EmptyMap
  /\ dataBoxId = <<>>
  /\ pc = "start"
  /\ counterAtEntry = 0
  /\ resolved = NullDisplay

\* mutant: the call is entered and never returns
Generate_NeverReturns == pc = "idle" /\ UNCHANGED vars

\* one call of generateBoxTree on the document handed over
Generate ==
  /\ pc = "idle"
  /\ \E r \in { generateBoxTree(html, nodeIdCounter) } :
        /\ tree' = r.tree
        /\ elementMap' = r.elementMap
        /\ dataBoxId' = r.attrs
        /\ nodeIdCounter' = r.ctr
  /\ counterAtEntry' = nodeIdCounter
  /\ pc' = "done"
  /\ UNCHANGED <<html, resolved>>

\* the caller hands over an input, the first of the session (one of the
\* documents first) or the next one after a call returned: parseHTML makes a
\* new document, whose elements carry no data-box-id; the module-level
\* counter stays
SubmitOf(first) ==
  /\ \/ pc = "start" /\ html' \in first
     \/ pc = "done" /\ html \in RepeatInputs /\ html' \in RepeatInputs
  /\ dataBoxId' = <<>>
  /\ pc' = "idle"
  /\ UNCHANGED <<nodeIdCounter, tree, elementMap, counterAtEntry, resolved>>

Submit == SubmitOf(Inputs)

Next == Generate \/ Submit

Spec == Init /\ [][Next]_vars

-----------------------------------------------------------------------------
(* The calls under fairness: the same session over the documents in which   *)
(* processChildren, hasBlockLevelChildren and processInlineWithBlockChildren *)
(* call each other                                                          *)

LiveInputs == Documents(FlowKinds, MaxLiveNodes)

SubmitLive == SubmitOf(LiveInputs)

LiveNext == Generate \/ SubmitLive

\* generateBoxTree is synchronous: a call that was entered runs to its return
FairSpec == Init /\ [][LiveNext]_vars /\ WF_vars(Generate)

-----------------------------------------------------------------------------
(* The resolver on its own: getComputedDisplayType applied to one element *)

ResolverTags == { "div", "li", "span", "td", "blink", "constructor" }

ResolverProperties == { "display", "DISPLAY", "color", "--display" }

ResolverValues ==
  { "block", "inline", "none", "contents", "list-item", "ruby-text", "FLEX",
    " none ", "Inline-Block", "bogus", "red", "constructor", "__proto__" }

\* the style attributes of at most MaxDeclarations declarations with at most
\* one declaration of the display property
ResolverStyles ==
  { st \in UNION { [1..n -> [property : ResolverProperties,
                             value : ResolverValues]] :
                   n \in 0..MaxDeclarations } :
      Cardinality({ i \in DOMAIN st :
                      st[i].property \in { "display", "DISPLAY" } }) <= 1 }

\* the one-element document <body><tag style="..."></tag></body>
OneElement(tag, style) == [parent |-> <<BODY>>, node |-> <<Elem(tag, style)>>]

ResolverInputs ==
  { OneElement(tag, style) : tag \in ResolverTags, style \in ResolverStyles }

ResolveInit ==
  /\ html \in ResolverInputs
  /\ nodeIdCounter = 0
  /\ tree = NullTree
  /\ elementMap = EmptyMap
  /\ dataBoxId = <<>>
  /\ pc = "idle"
  /\ counterAtEntry = 0
  /\ resolved = NullDisplay

Resolve ==
  /\ pc = "idle"
  /\ resolved' = getComputedDisplayType(html.node[1])
  /\ pc' = "done"
  /\ UNCHANGED <<html, nodeIdCounter, tree, elementMap, dataBoxId,
                 counterAtEntry>>

ResolveNext == Resolve

ResolveSpec == ResolveInit /\ [][ResolveNext]_vars

-----------------------------------------------------------------------------
(* Vocabulary of the properties *)

Done == pc = "done"

RECURSIVE BoxSeq(_)
RECURSIVE BoxSeqFrom(_, _)
\* the boxes of the subtree of b, depth first and left to right
BoxSeq(b) == <<b>> \o BoxSeqFrom(b.children, 1)

BoxSeqFrom(children, i) ==
  IF i > Len(children) THEN <<>>
  ELSE BoxSeq(children[i]) \o BoxSeqFrom(children, i + 1)

\* the boxes of the generated tree
AllBoxes == IF tree = NullTree THEN <<>> ELSE BoxSeq(tree)

BoxSet == { AllBoxes[i] : i \in 1..Len(AllBoxes) }

Elements == { n \in NodeIds(html) : html.node[n].nodeType = ELEMENT_NODE }

display(e) == getComputedDisplayType(html.node[e])

\* n and its descendants in the document
Subtree(e) == { n \in NodeIds(html) : e \in AncestorsOrSelf(html.parent, n) }

HasBoxKind(kinds) == \E b \in BoxSet : b.boxType \in kinds

BlockLevelKinds ==
  { "block", "list-item", "flex-container", "grid-container",
    "anonymous-block" }

InlineLevelKinds == { "inline", "inline-block", "anonymous-inline" }

KindsWithin(b) == { b.children[k].boxType : k \in 1..Len(b.children) }

-----------------------------------------------------------------------------
\* C1 (I3/P3, containment): every box backed by a block-container element
\* (display block, inline-block, table-cell or list-item) has immediate
\* children whose kinds are all block-level-or-anonymous-block or all
\* inline-level-or-anonymous-inline, at every depth of every generated tree.
C1_Containment ==
  Done =>
    \A b \in BoxSet :
      (b.element # NullNode /\ isBlockContainer(b.displayType)) =>
        \/ KindsWithin(b) \subseteq BlockLevelKinds
        \/ KindsWithin(b) \subseteq InlineLevelKinds

\* a block container below the root whose inline run was wrapped next to a
\* block sibling
C1_Witness ==
  /\ Done
  /\ \E b \in BoxSet :
       /\ b.element \notin {NullNode, BODY}
       /\ isBlockContainer(b.displayType)
       /\ \E j, k \in 1..Len(b.children) :
            /\ b.children[j].boxType = "anonymous-block"
            /\ KindsWithin(b.children[j]) \cap InlineLevelKinds # {}
            /\ b.children[k].boxType \in BlockLevelKinds \ {"anonymous-block"}

\* C2 (P1, no-none-survives): no element of resolved display none, and no
\* node below one, is the source of a box, a key of the source-to-box map or
\* a value listed in it.
C2_NoNoneSurvives ==
  Done =>
    \A e \in Elements :
      display(e) = "none" =>
        \A n \in Subtree(e) :
          /\ \A b \in BoxSet : b.element # n /\ b.textNode # n
          /\ n \notin DOMAIN elementMap.elementToBoxId
          /\ \A id \in DOMAIN elementMap.boxIdToElements :
               \A k \in 1..Len(elementMap.boxIdToElements[id]) :
                 elementMap.boxIdToElements[id][k] # n

\* a display:none element with a child was pruned from a tree that has boxes
\* for its siblings
C2_Witness ==
  /\ Done
  /\ tree # NullTree
  /\ \E e \in Elements :
       /\ display(e) = "none"
       /\ Subtree(e) # {e}
       /\ \E b \in BoxSet : b.element \notin {NullNode, BODY}

RECURSIVE Shape(_)
\* a box tree without its identities: kinds, sources and nesting
Shape(b) ==
  [boxType |-> b.boxType, element |-> b.element, textNode |-> b.textNode,
   children |-> [k \in 1..Len(b.children) |-> Shape(b.children[k])]]

\* the document with element e replaced in place by its children
Splice(d, e) ==
  [d EXCEPT !.parent =
     [n \in NodeIds(d) |->
        IF n = e THEN NullNode
        ELSE IF d.parent[n] = e THEN d.parent[e] ELSE d.parent[n]]]

\* C3 (P2, contents-transparency): an element E of resolved display contents
\* is never the source of a box, and the generated tree (kinds, nesting,
\* anonymous wrappers, splitting) equals the tree generated from the document
\* with E replaced in place by its children.
C3_ContentsTransparency ==
  Done =>
    \A e \in Elements :
      display(e) = "contents" =>
        /\ \A b \in BoxSet : b.element # e
        /\ Shape(tree) = Shape(generateBoxTree(Splice(html, e), 0).tree)

\* C4 (I4): no box of the final tree, the root included, has displayKeyword
\* none or contents.
C4_NoNoneOrContentsBox ==
  Done => \A b \in BoxSet : b.displayType \notin { "none", "contents" }

RECURSIVE ContextOf(_)
\* the display keyword of the parent context of node n: that of its nearest
\* ancestor that is not display:contents, and block for <body>
ContextOf(n) ==
  LET p == html.parent[n]
  IN IF p = BODY THEN "block"
     ELSE IF display(p) = "contents" THEN ContextOf(p)
     ELSE display(p)

RECURSIVE HasBlockThroughInlines(_)
\* e has an in-flow block-level descendant reachable through a chain of
\* inline-level elements that establish no BFC
HasBlockThroughInlines(e) ==
  \E c \in Elements :
    /\ html.parent[c] = e
    /\ \/ isBlockLevel(display(c))
       \/ /\ isInlineLevel(display(c))
          /\ ~establishesBlockFormattingContext(display(c))
          /\ HasBlockThroughInlines(c)

\* the inline-level elements that rule 4 splits
QualifiesForSplit(e) ==
  /\ isInlineLevel(display(e))
  /\ ~establishesBlockFormattingContext(display(e))
  /\ ~establishesBlockFormattingContext(ContextOf(e))
  /\ HasBlockThroughInlines(e)

\* no ancestor of n, nor n itself, is display:none
Rendered(n) ==
  \A a \in AncestorsOrSelf(html.parent, n) \ {BODY} : display(a) # "none"

HasBox(n) == \E b \in BoxSet : b.element = n

RECURSIVE NearestBoxedAncestor(_)
\* the nearest proper ancestor of n that is the source of a box
NearestBoxedAncestor(n) ==
  LET p == html.parent[n]
  IN IF p = BODY \/ HasBox(p) THEN p ELSE NearestBoxedAncestor(p)

\* the box of element c is an immediate child of the box of element a
IsChildBoxOf(c, a) ==
  \E b \in BoxSet :
    /\ b.element = a
    /\ \E k \in 1..Len(b.children) : b.children[k].element = c

\* C5 (P4, no-surviving-split-inline): for an inline-level element E that
\* establishes no BFC, whose parent context establishes none, and that has a
\* block-level descendant reachable through non-BFC inlines, no box has E as
\* its source with an inline kind, and the boxes the split produces for E's
\* block-level children are immediate children of the box that would have
\* been E's parent (the box of E's nearest boxed ancestor).
C5_NoSurvivingSplitInline ==
  Done =>
    \A e \in Elements :
      QualifiesForSplit(e) =>
        /\ \A b \in BoxSet :
             b.element = e => b.boxType \notin { "inline", "inline-block" }
        /\ Rendered(e) =>
             \A c \in Elements :
               (html.parent[c] = e /\ isBlockLevel(display(c))) =>
                 IsChildBoxOf(c, NearestBoxedAncestor(e))

FlexFamily == { "flex", "inline-flex" }

GridFamily == { "grid", "inline-grid" }

\* C6 (P5, blockification): the box of a direct child of a flex or inline-flex
\* element has kind flex-item and the box of a direct child of a grid or
\* inline-grid element has kind grid-item, whatever the child's own keyword.
C6_Blockification ==
  Done =>
    \A b \in BoxSet :
      (b.element \notin {NullNode, BODY} /\ html.parent[b.element] # BODY) =>
        LET parentDisplay == display(html.parent[b.element])
        IN /\ parentDisplay \in FlexFamily => b.boxType = "flex-item"
           /\ parentDisplay \in GridFamily => b.boxType = "grid-item"

\* a grid container that is itself a flex item, with a grid item inside
C6_Witness ==
  /\ Done
  /\ \E b, c \in BoxSet :
       /\ b.displayType \in GridFamily
       /\ b.boxType = "flex-item"
       /\ c.element \notin {NullNode, BODY}
       /\ html.parent[c.element] = b.element
       /\ c.boxType = "grid-item"

\* C7 (list-item precedence), as stated: an element of resolved display
\* list-item always yields a box of kind list-item, also as a direct child of
\* a flex or grid container.
C7_ListItemAlways ==
  Done =>
    \A b \in BoxSet : b.displayType = "list-item" => b.boxType = "list-item"

\* C7, amended: an element of resolved display list-item yields a box of kind
\* list-item unless its parent context is a flex or grid container, where
\* blockification wins and the box has kind flex-item or grid-item.
C7_ListItemUnlessBlockified ==
  Done =>
    \A b \in BoxSet :
      b.displayType = "list-item" =>
        b.boxType =
          IF ContextOf(b.element) \in FlexFamily THEN "flex-item"
          ELSE IF ContextOf(b.element) \in GridFamily THEN "grid-item"
          ELSE "list-item"

\* one list item kept its kind and another was blockified in the same tree
C7_Witness ==
  /\ Done
  /\ \E b, c \in BoxSet :
       /\ b.displayType = "list-item" /\ b.boxType = "list-item"
       /\ c.displayType = "list-item" /\ c.boxType \in { "flex-item", "grid-item" }

\* C8 (I2/P6, identity uniqueness): the boxes reachable from the root have
\* pairwise distinct identities.
C8_UniqueIdentities ==
  Done =>
    \A i, j \in 1..Len(AllBoxes) :
      i # j => AllBoxes[i].id # AllBoxes[j].id

\* a tree with anonymous blocks from a nested split, which also drew
\* identities for boxes it discarded
C8_Witness ==
  /\ Done
  /\ HasBoxKind({"anonymous-block"})
  /\ Len(AllBoxes) >= 5
  /\ nodeIdCounter > Len(AllBoxes)

\* C9 (I1, anonymity): a box is anonymous exactly if it has no source
\* element, and an anonymous box has no display keyword.
C9_Anonymity ==
  Done =>
    \A b \in BoxSet :
      /\ b.isAnonymous <=> b.element = NullNode
      /\ b.isAnonymous => b.displayType = NullDisplay

\* a tree with an anonymous block, a text box and an element box
C9_Witness ==
  /\ Done
  /\ HasBoxKind({"anonymous-block"})
  /\ \E b \in BoxSet : b.textNode # NullNode
  /\ \E b \in BoxSet : b.element \notin {NullNode, BODY}

BodyElements == { e \in Elements : html.parent[e] = BODY }

TopLevelText ==
  \E n \in NodeIds(html) :
    /\ html.parent[n] = BODY
    /\ html.node[n].nodeType = TEXT_NODE
    /\ \E k \in 1..Len(html.node[n].data) : html.node[n].data[k] \notin Whitespace

IsBodyWrapper(b) == b.element = BODY /\ b.boxType = "block"

\* the single child c is an inline that has to be split
SingleChildSplits(c) ==
  /\ isInlineLevel(display(c))
  /\ ~establishesBlockFormattingContext(display(c))
  /\ HasBlockThroughInlines(c)

\* the root is the body wrapper over the boxes of the split of c
RootOverSplitOf(c) ==
  /\ IsBodyWrapper(tree)
  /\ ~HasBox(c)
  /\ Len(tree.children) > 0
  /\ \A k \in 1..Len(tree.children) :
       \/ tree.children[k].boxType = "anonymous-block"
       \/ tree.children[k].element \in Subtree(c) \ {c}

\* C10 (root selection), as stated: with exactly one element child of body
\* and no non-whitespace text there, the root is that child's own box, unless
\* the child is an inline to be split, and then the root is the body wrapper
\* of kind block over the split boxes; in every other case the root is the
\* body wrapper of kind block.
C10_RootSelection ==
  Done =>
    IF Cardinality(BodyElements) = 1 /\ ~TopLevelText
    THEN LET c == CHOOSE e \in BodyElements : TRUE
         IN IF SingleChildSplits(c)
            THEN RootOverSplitOf(c)
            ELSE tree.element = c
    ELSE IsBodyWrapper(tree)

\* C10, amended: as stated, except that a single child of resolved display
\* none gives no tree at all.
C10_RootSelectionOrNoTree ==
  Done =>
    IF Cardinality(BodyElements) = 1 /\ ~TopLevelText
    THEN LET c == CHOOSE e \in BodyElements : TRUE
         IN IF display(c) = "none" THEN tree = NullTree
            ELSE IF SingleChildSplits(c) THEN RootOverSplitOf(c)
            ELSE tree.element = c
    ELSE IsBodyWrapper(tree)

\* a single inline child was split under the body wrapper, around a block
C10_Witness ==
  /\ Done
  /\ Cardinality(BodyElements) = 1
  /\ ~TopLevelText
  /\ SingleChildSplits(CHOOSE e \in BodyElements : TRUE)
  /\ IsBodyWrapper(tree)
  /\ Len(tree.children) >= 3

-----------------------------------------------------------------------------
(* C11 *)

\* the input is empty: <body> has no element child and no text
EmptyInput == Len(html.node) = 0

\* C11: generating from an empty input (a body with no element children and
\* no text) yields an absent tree and an empty source-to-box map, not a tree
\* with a root box.
C11_EmptyInputNoContent ==
  (Done /\ EmptyInput) => (tree = NullTree /\ elementMap = EmptyMap)

-----------------------------------------------------------------------------
(* C12 *)

\* C12: generation is side-effect-free on the source tree: after a generation
\* call every source element has exactly the same attributes, children and
\* text as before the call.
C12_SourceTreeUnchanged ==
  [][pc = "idle" => (html' = html /\ dataBoxId' = dataBoxId)]_vars

-----------------------------------------------------------------------------
(* C13 *)

\* the resolver returned for the element handed over
Resolved == pc = "done" /\ html \in ResolverInputs

\* the declarations of the display property in the element's style attribute
\* (CSS property names are case-insensitive; a custom property is not one)
DisplayDeclarations(element) ==
  { i \in DOMAIN element.style :
      element.style[i].property \in { "display", "DISPLAY" } }

\* the value of the element's display declaration is a recognised keyword
\* (keywords are case-insensitive and surrounding space is not part of them)
DeclaresRecognised(element) ==
  \E i \in DisplayDeclarations(element) :
    trimToLowerCase(element.style[i].value) \in DisplayType

DeclaredKeyword(element) ==
  trimToLowerCase(
    element.style[CHOOSE i \in DisplayDeclarations(element) : TRUE].value)

\* the tags with an entry in the default-display table
TableTags == { "div", "p", "li", "td", "span", "em" }

\* what the priority order of the specification gives for the element
ResolutionByPriority(element) ==
  IF DeclaresRecognised(element) THEN DeclaredKeyword(element)
  ELSE IF element.tagName \in TableTags
       THEN DEFAULT_DISPLAY_TYPES(element.tagName)
       ELSE "block"

\* C13: resolve(element) returns the keyword of the element's inline-style
\* display declaration when that value is a recognised keyword; otherwise the
\* tag's entry in the default-display table; otherwise block.  The result is
\* always a member of the closed keyword enumeration.
C13_ResolutionPriority ==
  Resolved =>
    /\ resolved = ResolutionByPriority(html.node[1])
    /\ resolved \in DisplayType

-----------------------------------------------------------------------------
(* C14 *)

RECURSIVE EffectiveChildren(_)
\* the child nodes of c, a display:contents child standing for its own
\* children
EffectiveChildren(c) ==
  UNION { IF n \in Elements /\ display(n) = "contents"
          THEN EffectiveChildren(n) ELSE {n} :
          n \in { m \in NodeIds(html) : html.parent[m] = c } }

\* n is a text run, or generates no box, or is an inline-level element that
\* is not split
InlineOrText(n) ==
  \/ n \notin Elements
  \/ display(n) = "none"
  \/ isInlineLevel(display(n)) /\ ~QualifiesForSplit(n)

\* the boxes of block containers all of whose box-generating children are
\* inline-level or text
PureInlineContainers ==
  { b \in BoxSet :
      /\ b.element # NullNode
      /\ isBlockContainer(b.displayType)
      /\ \A n \in EffectiveChildren(b.element) : InlineOrText(n) }

\* C14 (pure inline flow): when every box-generating child of a block
\* container is inline-level (display inline, inline-block, inline-flex,
\* inline-grid, inline-table, ruby...) or a text run, no anonymous-block box
\* is created among that container's children.  Read in the claim's favour:
\* an inline child that is split into blocks does not count as inline-level.
C14_PureInlineFlow ==
  Done => \A b \in PureInlineContainers : "anonymous-block" \notin KindsWithin(b)

-----------------------------------------------------------------------------
(* C15 *)

\* the inline-level display keywords that establish a BFC
InlineBfcDisplays ==
  { "inline-block", "inline-flex", "inline-grid", "inline-table" }

\* the boxes whose source element is e, by their position in the tree
BoxesOf(e) == { i \in 1..Len(AllBoxes) : AllBoxes[i].element = e }

\* the boxes strictly inside box b
Descendants(b) == { BoxSeqFrom(b.children, 1)[i] :
                    i \in 1..Len(BoxSeqFrom(b.children, 1)) }

BlockLevelChildrenOf(e) ==
  { c \in Elements : html.parent[c] = e /\ isBlockLevel(display(c)) }

\* C15: an inline-level element that itself establishes a BFC (inline-block,
\* inline-flex, inline-grid, inline-table) is never split, wherever it occurs:
\* it yields exactly one box whose source element is that element, and the
\* boxes of its block-level children are descendants of that box, not
\* siblings of it.
C15_InlineBfcNeverSplit ==
  Done =>
    \A e \in Elements :
      (Rendered(e) /\ display(e) \in InlineBfcDisplays) =>
        /\ Cardinality(BoxesOf(e)) = 1
        /\ \A i \in BoxesOf(e) :
             \A c \in BlockLevelChildrenOf(e) :
               /\ HasBox(c)
               /\ \A x \in BoxSet :
                    x.element = c => x \in Descendants(AllBoxes[i])

\* an inline-block with a block-level child sits in a split inline, next to a
\* block-level sibling, and was boxed
C15_Witness ==
  /\ Done
  /\ \E e \in Elements :
       /\ display(e) = "inline-block"
       /\ BlockLevelChildrenOf(e) # {}
       /\ html.parent[e] # BODY
       /\ QualifiesForSplit(html.parent[e])
       /\ ~HasBox(html.parent[e])
       /\ Cardinality(BoxesOf(e)) = 1

-----------------------------------------------------------------------------
(* C16 *)

\* the source nodes under the root: all of them under the body wrapper, the
\* subtree of the root's element otherwise
UnderRoot ==
  IF tree = NullTree THEN {}
  ELSE IF tree.element = BODY THEN NodeIds(html)
  ELSE Subtree(tree.element)

InMap(n) == n \in DOMAIN elementMap.elementToBoxId

IsWhitespaceText(n) ==
  html.node[n].nodeType = TEXT_NODE /\ isWhitespaceOnly(html.node[n].data)

\* pruned: an element with display none, a descendant of one, or a
\* whitespace-only text run
Pruned(n) == ~Rendered(n) \/ IsWhitespaceText(n)

\* C16 (map completeness), as stated: a source node (element or text run) is
\* absent from the source-to-box map only if it was pruned, i.e. it is an
\* element with display none, a descendant of one, or a whitespace-only text
\* run; every other source node under the root has an entry.
C16_MapCompleteness ==
  Done => \A n \in UnderRoot : ~InMap(n) => Pruned(n)

\* C16, amended: a source node under the root is absent from the map only if
\* it was pruned, or is an element with display contents, or is an
\* inline-level element that was split around its block-level descendants;
\* every other source node under the root has an entry.
C16_MapCompletenessButUnboxed ==
  Done =>
    \A n \in UnderRoot :
      ~InMap(n) =>
        \/ Pruned(n)
        \/ n \in Elements /\ display(n) = "contents"
        \/ n \in Elements /\ QualifiesForSplit(n)

\* a document with a contents element and a split inline, both rendered and
\* absent from the map, next to a text run and an element that have entries
C16_Witness ==
  /\ Done
  /\ \E n \in UnderRoot \cap Elements :
       ~InMap(n) /\ Rendered(n) /\ display(n) = "contents"
  /\ \E n \in UnderRoot \cap Elements :
       ~InMap(n) /\ Rendered(n) /\ QualifiesForSplit(n)
  /\ \E n \in UnderRoot \ Elements : InMap(n)
  /\ \E n \in UnderRoot \cap Elements : InMap(n)

-----------------------------------------------------------------------------
(* C17 *)

\* boxIdToElements.get(id): the list kept for the identity, <<>> when the
\* reverse map has no entry for it
sourceNodesFor(id) ==
  IF id \in DOMAIN elementMap.boxIdToElements
  THEN elementMap.boxIdToElements[id] ELSE <<>>

Range(list) == { list[i] : i \in DOMAIN list }

\* the source element and the source text run of box b
SourcesOf(b) == { b.element, b.textNode } \ { NullNode }

\* the source nodes that contributed to box b: its own, and for an anonymous
\* box those of the boxes it wraps
ContributorsOf(b) ==
  SourcesOf(b) \cup
    (IF b.isAnonymous
     THEN UNION { SourcesOf(b.children[k]) : k \in 1..Len(b.children) }
     ELSE {})

\* C17 (reverse map aggregation): sourceNodesFor(boxIdentity) returns the
\* ordered list of source nodes that contributed to the box; for an anonymous
\* box wrapping several text runs and elements the list contains all of them,
\* so several source nodes map to the same box identity.
C17_ReverseAggregation ==
  Done => \A b \in BoxSet : ContributorsOf(b) \subseteq Range(sourceNodesFor(b.id))

-----------------------------------------------------------------------------
(* C18 *)

\* elementToBoxId.get(s)
boxIdentityFor(s) == elementMap.elementToBoxId[s]

\* the first box produced for source node s, in the order of creation
FirstBoxFor(s) ==
  CHOOSE b \in BoxSet :
    /\ s \in SourcesOf(b)
    /\ \A x \in BoxSet : s \in SourcesOf(x) => b.id[2] <= x.id[2]

\* the identities the map holds, in either direction
MapIdentities ==
  { boxIdentityFor(s) : s \in DOMAIN elementMap.elementToBoxId }
    \cup DOMAIN elementMap.boxIdToElements

\* C18 (forward/reverse consistency): for every box in the output tree that
\* has a source element or source text run s, boxIdentityFor(s) is the
\* identity of the first box produced for s and s is in sourceNodesFor of
\* that identity; conversely every identity in the map is the identity of a
\* box in the output tree.
C18_MapConsistency ==
  Done =>
    /\ \A b \in BoxSet : \A s \in SourcesOf(b) :
         /\ s \in DOMAIN elementMap.elementToBoxId
         /\ boxIdentityFor(s) = FirstBoxFor(s).id
         /\ s \in Range(sourceNodesFor(boxIdentityFor(s)))
    /\ \A id \in MapIdentities : \E b \in BoxSet : b.id = id

\* a tree with element-backed and text-backed boxes, all of them in the map
C18_Witness ==
  /\ Done
  /\ \E b \in BoxSet : b.element \in Elements
  /\ \E b \in BoxSet : b.textNode # NullNode
  /\ \E b \in BoxSet : b.boxType = "anonymous-block"
  /\ Cardinality(DOMAIN elementMap.elementToBoxId) >= 3

-----------------------------------------------------------------------------
(* C19 *)

\* the result of the call matches what a call entered with a fresh counter
\* returns for the same input
SameAsFresh(fresh) ==
  /\ tree = fresh.tree
  /\ elementMap = fresh.elementMap
  /\ nodeIdCounter = fresh.ctr

\* C19 (independent, reproducible calls): the identity counter is initialised
\* at the start of every generation call, so two calls on the same input
\* return equal box trees with equal identities, whatever calls were made
\* before or between them: the result of every call is the result of the
\* first call of a session on that input.
C19_ReproducibleCalls ==
  Done => SameAsFresh(withElementMap(selectRoot(html, 0)))

\* a call entered with the counter left above zero by an earlier call has
\* returned a tree
C19_Witness ==
  /\ Done
  /\ counterAtEntry > 0
  /\ tree # NullTree
  /\ Len(tree.children) > 0

-----------------------------------------------------------------------------
(* C20 *)

-----------------------------------------------------------------------------
(* C21 *)

\* the source element or text run of box b, NullNode for an anonymous block
SourceOf(b) == IF b.element # NullNode THEN b.element ELSE b.textNode

\* the source nodes of the boxes in the subtree of box b
SourcesWithin(b) ==
  { SourceOf(BoxSeq(b)[i]) : i \in 1..Len(BoxSeq(b)) } \ { NullNode }

RECURSIVE Contributes(_)
\* the source node n is inline content or carries some: a text run that is
\* not whitespace only, an element that generates a box, or a display:contents
\* element with such a child
Contributes(n) ==
  IF n \notin Elements THEN ~isWhitespaceOnly(html.node[n].data)
  ELSE IF display(n) = "none" THEN FALSE
  ELSE IF display(n) = "contents"
       THEN \E c \in NodeIds(html) : html.parent[c] = n /\ Contributes(c)
  ELSE TRUE

\* c is one of the block-level children b1..bk of a split inline
IsBlockChild(c) == c \in Elements /\ isBlockLevel(display(c))

\* c is an inline-level child that is split itself (the nested split)
IsNestedSplit(c) ==
  /\ c \in Elements
  /\ isInlineLevel(display(c))
  /\ ~establishesBlockFormattingContext(display(c))
  /\ HasBlockThroughInlines(c)

\* the inline elements whose split is the plain one: some child is
\* block-level and no inline child is split itself
PlainSplits ==
  { e \in Elements :
      /\ isInlineLevel(display(e))
      /\ ~establishesBlockFormattingContext(display(e))
      /\ \E c \in Elements : html.parent[c] = e /\ IsBlockChild(c)
      /\ \A c \in Elements : html.parent[c] = e => ~IsNestedSplit(c) }

\* an anonymous block over the run of children run, or nothing for an empty
\* run
RunBox(run) ==
  IF run = {} THEN <<>> ELSE << [element |-> NullNode, over |-> run] >>

RECURSIVE SplitStructure(_, _, _)
\* the sequence the split of an inline with the children nodes[i..] is to
\* yield, run being the contributing children since the last block
SplitStructure(nodes, i, run) ==
  IF i > Len(nodes) THEN RunBox(run)
  ELSE IF IsBlockChild(nodes[i])
  THEN (RunBox(run) \o << [element |-> nodes[i], over |-> {nodes[i]}] >>)
         \o SplitStructure(nodes, i + 1, {})
  ELSE SplitStructure(nodes, i + 1,
                      IF Contributes(nodes[i]) THEN run \cup {nodes[i]}
                      ELSE run)

\* what box b of the split of e is: its source element (none for an
\* anonymous block) and the children of e its content comes from
StructureOf(e, b) ==
  [element |-> IF b.boxType = "anonymous-block" THEN NullNode ELSE b.element,
   over |-> { c \in NodeIds(html) :
                html.parent[c] = e /\ SourcesWithin(b) \cap Subtree(c) # {} }]

\* the boxes splitting e yields
SplitOf(e) ==
  processInlineWithBlockChildren(html, e, display(e), FALSE, 0).boxes

\* the box of the block-level element c, processed on its own
ProcessedAlone(c) ==
  boxOverChildren(html, c, display(c),
                  createBoxFromElement(html, c, display(c), FALSE,
                                       NullDisplay, 0)).boxes[1]

\* C21 (split structure): splitting an inline element whose children contain
\* the block-level elements b1..bk yields a sequence in which each bi is its
\* own fully processed box, in source order; each non-empty run of inline
\* content before b1, between two blocks and after bk is enclosed in exactly
\* one anonymous-block at that position; an empty run gives no box.
C21_SplitStructure ==
  Done =>
    \A e \in PlainSplits :
      /\ [k \in 1..Len(SplitOf(e)) |-> StructureOf(e, SplitOf(e)[k])]
           = SplitStructure(childNodes(html, e), 1, {})
      /\ \A k \in 1..Len(SplitOf(e)) :
           SplitOf(e)[k].boxType # "anonymous-block" =>
             Shape(SplitOf(e)[k]) = Shape(ProcessedAlone(SplitOf(e)[k].element))

\* the call returned for text, block, text, block, text inside an inline: the
\* root holds the five boxes anonymous-block, block, anonymous-block, block,
\* anonymous-block
C21_Witness ==
  /\ Done
  /\ html = MultipleBlocks
  /\ [k \in 1..Len(tree.children) |-> tree.children[k].boxType]
       = << "anonymous-block", "block", "anonymous-block", "block",
            "anonymous-block" >>
  /\ [k \in 1..Len(tree.children) |-> Shape(tree.children[k])]
       = [k \in 1..Len(SplitOf(1)) |-> Shape(SplitOf(1)[k])]

-----------------------------------------------------------------------------
(* C22 *)

RECURSIVE InlineFlowFrom(_, _)
\* the children nodes[i..] of an inline being split, each inline child that is
\* split itself standing for its own children: the content that lies in the
\* same line once the inline and its inline descendants are broken up
InlineFlowFrom(nodes, i) ==
  IF i > Len(nodes) THEN <<>>
  ELSE (IF IsNestedSplit(nodes[i])
        THEN InlineFlowFrom(childNodes(html, nodes[i]), 1)
        ELSE << nodes[i] >>)
         \o InlineFlowFrom(nodes, i + 1)

InlineFlow(e) == InlineFlowFrom(childNodes(html, e), 1)

\* the inline elements whose split cascades: an inline child is split itself
NestedSplits ==
  { e \in Elements :
      /\ isInlineLevel(display(e))
      /\ ~establishesBlockFormattingContext(display(e))
      /\ \E c \in Elements : html.parent[c] = e /\ IsNestedSplit(c) }

\* what box b of a cascading split is: its source element (none for an
\* anonymous block) and the nodes of the flow its content comes from
FlowStructureOf(flow, b) ==
  [element |-> IF b.boxType = "anonymous-block" THEN NullNode ELSE b.element,
   over |-> { c \in Range(flow) : SourcesWithin(b) \cap Subtree(c) # {} }]

\* C22 (nested split merge): when a non-BFC inline child of an inline being
\* split itself contains a block, the nested inline's content before its
\* first block lies in the same anonymous-block as the outer content before
\* the nested inline, the nested block boxes are siblings at the outer level,
\* the nested inline's trailing content lies in the same anonymous-block as
\* the outer content that follows, and neither the inner nor the outer inline
\* element is the source of a box.
C22_NestedSplitMerge ==
  Done =>
    \A e \in NestedSplits :
      /\ [k \in 1..Len(SplitOf(e)) |->
            FlowStructureOf(InlineFlow(e), SplitOf(e)[k])]
           = SplitStructure(InlineFlow(e), 1, {})
      /\ \A k \in 1..Len(SplitOf(e)) :
           \A c \in Elements :
             (c = e \/ (html.parent[c] = e /\ IsNestedSplit(c))) =>
               c \notin SourcesWithin(SplitOf(e)[k])
      /\ QualifiesForSplit(e) =>
           \A c \in Elements :
             (c = e \/ (html.parent[c] = e /\ IsNestedSplit(c))) => ~HasBox(c)

\* the call returned for "First", then an inline holding "Before", a block and
\* "After": the root holds an anonymous block with both "First" and "Before",
\* the block, and an anonymous block with "After"
C22_Witness ==
  /\ Done
  /\ html = NestedInline
  /\ [k \in 1..Len(tree.children) |-> tree.children[k].boxType]
       = << "anonymous-block", "block", "anonymous-block" >>
  /\ SourcesWithin(tree.children[1]) = {2, 4}
  /\ tree.children[2].element = 5
  /\ SourcesWithin(tree.children[3]) = {7}

-----------------------------------------------------------------------------
(* C23 *)

\* the whitespace-only text runs of the document
WhitespaceRuns ==
  { n \in NodeIds(html) \ Elements : isWhitespaceOnly(html.node[n].data) }

\* e is <body> or a block-level element
IsBlockParent(e) == e = BODY \/ isBlockLevel(display(e))

\* the boxes of block-level elements (and of <body>) whose children are
\* block-level elements separated by nothing but whitespace
BlocksOfBlocks ==
  { b \in BoxSet :
      /\ b.element # NullNode
      /\ IsBlockParent(b.element)
      /\ \E c \in WhitespaceRuns : html.parent[c] = b.element
      /\ \A c \in NodeIds(html) :
           html.parent[c] = b.element =>
             c \in WhitespaceRuns \/ IsBlockChild(c) }

\* C23 (whitespace collapsing): a whitespace-only text run whose parent is
\* block-level never yields a box, so a block whose children are block
\* elements separated only by whitespace has exactly those block boxes as
\* children and no anonymous-inline box.
C23_WhitespaceCollapsing ==
  Done =>
    /\ \A n \in WhitespaceRuns :
         IsBlockParent(html.parent[n]) => \A b \in BoxSet : b.textNode # n
    /\ \A b \in BlocksOfBlocks :
         /\ [k \in 1..Len(b.children) |-> b.children[k].element]
              = SelectSeq(childNodes(html, b.element), IsBlockChild)
         /\ "anonymous-inline" \notin KindsWithin(b)

\* the call returned for a div holding whitespace, a paragraph, whitespace, a
\* paragraph and whitespace: the root is the div and its children are the two
\* paragraph boxes
C23_Witness ==
  /\ Done
  /\ html = WhitespaceBetweenBlocks
  /\ tree \in BlocksOfBlocks
  /\ tree.element = 1
  /\ [k \in 1..Len(tree.children) |-> tree.children[k].element] = <<3, 6>>

-----------------------------------------------------------------------------
(* C24 *)

\* the text runs that are not whitespace only
TextRuns == (NodeIds(html) \ Elements) \ WhitespaceRuns

\* the kind of the box of a text run in the parent context of keyword context
TextKindIn(context) ==
  IF context \in FlexFamily THEN "anonymous-flex-item"
  ELSE IF context \in GridFamily THEN "anonymous-grid-item"
  ELSE "anonymous-inline"

\* C24 (text box kinds): a non-whitespace text run yields a leaf box of kind
\* anonymous-flex-item when the parent context is flex or inline-flex,
\* anonymous-grid-item when it is grid or inline-grid, and anonymous-inline
\* otherwise; for text inside a display:contents element the parent context
\* is that of the nearest ancestor that is not display:contents.
C24_TextBoxKinds ==
  Done =>
    \A n \in TextRuns :
      /\ Rendered(n) => \E b \in BoxSet : b.textNode = n
      /\ \A b \in BoxSet :
           b.textNode = n =>
             /\ b.boxType = TextKindIn(ContextOf(n))
             /\ b.children = <<>>

\* a call returned with a text run boxed as a flex item although its parent
\* is a display:contents element: the context is the flex container above
C24_Witness ==
  /\ Done
  /\ \E b \in BoxSet :
       /\ b.boxType = "anonymous-flex-item"
       /\ display(html.parent[b.textNode]) = "contents"
       /\ ContextOf(b.textNode) = "flex"

-----------------------------------------------------------------------------
(* C25 *)

\* the source nodes below the source element of a box (all of them for
\* <body>)
Below(e) == IF e = BODY THEN NodeIds(html) ELSE Subtree(e) \ {e}

\* box b holds nothing: it has no child box, it is not the box of a text run,
\* and, when an element is its source, the element has no non-whitespace text
\* descendant
HoldsNothing(b) ==
  /\ b.children = <<>>
  /\ b.textNode = NullNode
  /\ b.element # NullNode => Below(b.element) \cap TextRuns = {}

\* C25 (isEmpty): for every box of the output, isEmpty is true if and only if
\* the box has no element or text children and, for an element-backed box, no
\* non-whitespace text descendant; in particular a box with no child boxes
\* and no text (an element whose only children are display:none, or an empty
\* body wrapper) is reported empty.
C25_IsEmpty ==
  Done => \A b \in BoxSet : b.isEmpty <=> HoldsNothing(b)

-----------------------------------------------------------------------------
(* C26 *)

\* C26: no box of the output has two anonymous-block boxes as adjacent
\* children: inline content that is contiguous in the source (text directly
\* followed by a split inline's leading content, two consecutive split
\* inlines) is enclosed in a single anonymous-block.
C26_NoAdjacentAnonymousBlocks ==
  Done =>
    \A b \in BoxSet :
      \A k \in 1..(Len(b.children) - 1) :
        ~ /\ b.children[k].boxType = "anonymous-block"
          /\ b.children[k + 1].boxType = "anonymous-block"

-----------------------------------------------------------------------------
(* C27 *)

\* C27: every anonymous-block box of the output has at least one child and
\* all of its children are inline-level boxes (inline, inline-block or
\* anonymous-inline); an anonymous-block never directly holds a block-level
\* box (block, list-item, flex-container, grid-container or another
\* anonymous-block).
C27_AnonymousBlockHoldsInlines ==
  Done =>
    \A b \in BoxSet :
      b.boxType = "anonymous-block" =>
        /\ Len(b.children) > 0
        /\ KindsWithin(b) \subseteq InlineLevelKinds

-----------------------------------------------------------------------------
(* C28 *)

\* C28: no box of kind inline has a child box of block-level kind (block,
\* list-item, flex-container, grid-container, anonymous-block), whatever the
\* parent of the inline element is (block, inline-block, table-cell, a
\* display:contents wrapper, ...).
C28_NoBlockInInline ==
  Done =>
    \A b \in BoxSet :
      b.boxType = "inline" => KindsWithin(b) \cap BlockLevelKinds = {}

-----------------------------------------------------------------------------
(* C29 *)

RECURSIVE DocumentOrderFrom(_)
RECURSIVE DocumentOrderOf(_, _)
\* n and its descendants, depth first and left to right
DocumentOrderFrom(n) == <<n>> \o DocumentOrderOf(childNodes(html, n), 1)

DocumentOrderOf(nodes, i) ==
  IF i > Len(nodes) THEN <<>>
  ELSE DocumentOrderFrom(nodes[i]) \o DocumentOrderOf(nodes, i + 1)

\* the source tree in document order, body first
DocumentOrder == DocumentOrderFrom(BODY)

\* the source nodes of the boxes of the generated tree, depth first and left
\* to right; anonymous blocks have none
BoxSources ==
  SelectSeq([i \in 1..Len(AllBoxes) |-> SourceOf(AllBoxes[i])],
            LAMBDA n : n # NullNode)

RECURSIVE IsSubsequenceFrom(_, _, _, _)
\* s[i..] can be read off t[j..] left to right
IsSubsequenceFrom(s, i, t, j) ==
  IF i > Len(s) THEN TRUE
  ELSE IF j > Len(t) THEN FALSE
  ELSE IF s[i] = t[j] THEN IsSubsequenceFrom(s, i + 1, t, j + 1)
  ELSE IsSubsequenceFrom(s, i, t, j + 1)

IsSubsequence(s, t) == IsSubsequenceFrom(s, 1, t, 1)

\* C29 (document order): the source nodes of the boxes, listed depth first
\* and left to right over the generated tree, are a subsequence of the source
\* tree listed in document order, for every input (wrapping, contents
\* promotion, splitting and nested splitting included).
C29_DocumentOrder == Done => IsSubsequence(BoxSources, DocumentOrder)

\* the nested split of the test suite: a span in a span, split around a div,
\* with text before, between and after
C29_Witness ==
  /\ Done
  /\ html = NestedInline
  /\ BoxSources = <<BODY, 2, 4, 5, 6, 7>>
  /\ Len(AllBoxes) > Len(BoxSources)

-----------------------------------------------------------------------------
(* C30 *)

\* the positions, in the depth-first listing, of the boxes whose source is n
BoxesWithSource(n) == { i \in 1..Len(AllBoxes) : SourceOf(AllBoxes[i]) = n }

\* the positions of the text-backed leaf boxes of the text run n
TextLeavesOf(n) ==
  { i \in 1..Len(AllBoxes) :
      /\ AllBoxes[i].textNode = n
      /\ AllBoxes[i].element = NullNode
      /\ Len(AllBoxes[i].children) = 0 }

\* C30 (nothing lost or duplicated): every source node is the source of at
\* most one box of the generated tree, and every non-whitespace text run with
\* no display:none ancestor is the source of exactly one text-backed leaf box,
\* also inside split, nested-split or display:contents elements.
C30_NothingLostOrDuplicated ==
  Done =>
    /\ \A n \in NodeIds(html) \cup {BODY} : Cardinality(BoxesWithSource(n)) <= 1
    /\ \A n \in TextRuns : Rendered(n) => Cardinality(TextLeavesOf(n)) = 1

\* the nested split of the test suite: its four text runs, two of them in the
\* inner span and one in the div it is split around, have one box each
C30_Witness ==
  /\ Done
  /\ html = NestedInline
  /\ TextRuns = {2, 4, 6, 7}
  /\ \A n \in TextRuns : Cardinality(TextLeavesOf(n)) = 1
  /\ HasBoxKind({"anonymous-block"})

====
